---- MODULE Spec2Model ----
(***************************************************************************)
(* Model of scripts/update_data.py: the PasCom 2025 signup counter.        *)
(*                                                                         *)
(* A run of main() fetches a spreadsheet, counts the parish column,        *)
(* merges the counts with dados.json by per-key maximum and writes         *)
(* dados.json back sorted by descending count.                             *)
(*                                                                         *)
(* Representation                                                          *)
(*   - a Python str is a tuple of one-character strings; the character     *)
(*     o-acute is written "o_acute" (upper case "O_acute");                *)
(*   - a Python dict is the sequence of its items <<key, value>> in        *)
(*     insertion order, with pairwise distinct keys;                       *)
(*   - the text of dados.json is a sequence of JSON tokens;                *)
(*   - a pandas DataFrame is its column names and, per column, its cells.  *)
(***************************************************************************)
EXTENDS Integers, Sequences, FiniteSets, TLC

(***************************************************************************)
(* Bounds of the model.                                                    *)
(***************************************************************************)
\* Rows of the fetched sheet.
MaxRows == 2
\* Highest count a hand edit of dados.json raises an entry to.
MaxManual == 3
\* Highest count in the argument dicts of the merge_data harness.
MaxCount == 2

(***************************************************************************)
(* Python str operations.                                                  *)
(***************************************************************************)
\* str.lower(), on the letters the model's strings use.
LowerChar(c) ==
    CASE c = "P" -> "p"
      [] c = "C" -> "c"
      [] c = "N" -> "n"
      [] c = "S" -> "s"
      [] c = "M" -> "m"
      [] c = "A" -> "a"
      [] c = "B" -> "b"
      [] c = "O_acute" -> "o_acute"
      [] OTHER -> c

lower(s) == [i \in 1..Len(s) |-> LowerChar(s[i])]

IsSpace(c) == c = " "

\* str.strip(): leading and trailing whitespace removed.
strip(s) ==
    LET nonspace == {i \in 1..Len(s) : ~IsSpace(s[i])}
    IN  IF nonspace = {} THEN <<>>
        ELSE LET lo == CHOOSE i \in nonspace : \A j \in nonspace : i <= j
                 hi == CHOOSE i \in nonspace : \A j \in nonspace : j <= i
             IN  SubSeq(s, lo, hi)

\* Python's `sub in s` on strings.
Contains(sub, s) ==
    \E i \in 1..(Len(s) - Len(sub) + 1) : SubSeq(s, i, i + Len(sub) - 1) = sub

\* The header phrase of the value filter (line 82).
KwParoquiaAcute == <<"p","a","r","o_acute","q","u","i","a">>
\* The keywords of the column search (line 64).
ColumnKeywords ==
    << KwParoquiaAcute,
       <<"p","a","r","o","q","u","i","a">>,
       <<"c","i","d","a","d","e">>,
       <<"q","u","a","l"," ","s","u","a">> >>

(***************************************************************************)
(* Python dict operations on item sequences.                               *)
(***************************************************************************)
Keys(d) == {d[i][1] : i \in 1..Len(d)}

Get(d, k) == d[CHOOSE i \in 1..Len(d) : d[i][1] = k][2]

\* d[k] = v: an existing key keeps its position, a new key goes last.
Put(d, k, v) ==
    IF k \in Keys(d)
    THEN [i \in 1..Len(d) |-> IF d[i][1] = k THEN <<k, v>> ELSE d[i]]
    ELSE Append(d, <<k, v>>)

Max(a, b) == IF a >= b THEN a ELSE b

\* collections.Counter(list) turned into a dict: keys in first-seen order.
RECURSIVE Counter(_)
Counter(list) ==
    IF list = <<>> THEN <<>>
    ELSE LET c == Counter(SubSeq(list, 1, Len(list) - 1))
             x == list[Len(list)]
         IN  Put(c, x, IF x \in Keys(c) THEN Get(c, x) + 1 ELSE 1)

(***************************************************************************)
(* The strings of the model.                                               *)
(***************************************************************************)
\* A missing cell (pandas NaN): not a string.
NaN == <<"NaN">>
Blank == <<" ">>
StMary == <<"S","t","."," ","M">>
ParoquiaA == <<"P","a","r","o_acute","q","u","i","a"," ","A">>
paroquiaB == <<"p","a","r","o_acute","q","u","i","a"," ","B">>
Filler == <<"x">>
CellPool == {NaN, Blank, StMary, ParoquiaA, paroquiaB}

ColNome == <<"N","o","m","e">>
ColCidade == <<"C","i","d","a","d","e">>
HeaderKeyword == <<ColNome, ColCidade>>
HeaderShort == <<ColNome>>
HeaderFive == << <<"a">>, <<"b">>, <<"c">>, <<"d">>, <<"e">> >>
HeaderFirst == <<ColCidade, ColNome>>
Headers == {HeaderKeyword, HeaderShort, HeaderFive, HeaderFirst}

(***************************************************************************)
(* get_sheet_data and process_paroquia_data.                               *)
(***************************************************************************)
None == [isNone |-> TRUE, columns |-> <<>>, data |-> <<>>]

\* A sheet whose last column holds `cells` and whose other columns hold Filler.
DataFrame(columns, cells) ==
    [isNone |-> FALSE, columns |-> columns,
     data |-> [j \in 1..Len(columns) |->
                 IF j = Len(columns) THEN cells
                 ELSE [i \in 1..Len(cells) |-> Filler]]]

RECURSIVE SeqsUpTo(_, _)
SeqsUpTo(S, n) ==
    IF n = 0 THEN {<<>>}
    ELSE LET shorter == SeqsUpTo(S, n - 1)
         IN  shorter \cup {Append(s, x) : s \in shorter, x \in S}

DataFrames == {DataFrame(h, cells) : h \in Headers, cells \in SeqsUpTo(CellPool, MaxRows)}

\* What requests.get and pd.read_csv give: an exception, or a DataFrame.
Responses == {[raises |-> TRUE, df |-> None]}
             \cup {[raises |-> FALSE, df |-> d] : d \in DataFrames}

get_sheet_data(sid, response) ==
    IF response.raises THEN None ELSE response.df

df_empty(d) == Len(d.columns) = 0 \/ Len(d.data[1]) = 0

MinColumns == 5
FallbackColumn == 5

\* The column the counts are taken from (1-based), 0 when none is found.
paroquia_column(d) ==
    LET hits == {j \in 1..Len(d.columns) :
                   \E n \in 1..Len(ColumnKeywords) :
                       Contains(ColumnKeywords[n], lower(d.columns[j]))}
    IN  IF hits # {} THEN CHOOSE j \in hits : \A h \in hits : j <= h
        ELSE IF Len(d.columns) >= MinColumns THEN FallbackColumn
        ELSE 0

dropna(cells) == SelectSeq(cells, LAMBDA c : c # NaN)

\* Line 82: the values kept for counting.
KeepValue(p) == strip(p) # <<>> /\ Contains(KwParoquiaAcute, lower(p))

process_paroquia_data(d) ==
    IF d.isNone \/ df_empty(d) THEN <<>>
    ELSE LET col == paroquia_column(d)
         IN  IF col = 0 THEN <<>>
             ELSE Counter(SelectSeq(dropna(d.data[col]), KeepValue))

(***************************************************************************)
(* dados.json: json.dump and json.load.                                    *)
(***************************************************************************)
Tok(t) == [tok |-> t, key |-> <<>>, val |-> 0]
Member(k, v) == [tok |-> "member", key |-> k, val |-> v]

json_dump(d) ==
    <<Tok("{")>> \o [i \in 1..Len(d) |-> Member(d[i][1], d[i][2])] \o <<Tok("}")>>

\* A repeated key keeps its first position and takes its last value.
RECURSIVE ObjectItems(_)
ObjectItems(members) ==
    IF members = <<>> THEN <<>>
    ELSE LET m == members[Len(members)]
         IN  Put(ObjectItems(SubSeq(members, 1, Len(members) - 1)), m.key, m.val)

EmptyDict == [kind |-> "dict", items |-> <<>>]

\* Mutant of json_load: the last member of an object is not read.
json_load_short(text) ==
    LET n == Len(text)
    IN  IF n >= 2 /\ text[1] = Tok("{") /\ text[n] = Tok("}")
        THEN [raises |-> FALSE,
              value |-> [kind |-> "dict", items |-> ObjectItems(SubSeq(text, 2, n - 2))]]
        ELSE [raises |-> TRUE, value |-> EmptyDict]

json_load(text) ==
    LET n == Len(text)
    IN  IF n >= 2 /\ text[1] = Tok("{") /\ text[n] = Tok("}")
           /\ \A i \in 2..(n - 1) : text[i].tok = "member"
        THEN [raises |-> FALSE,
              value |-> [kind |-> "dict", items |-> ObjectItems(SubSeq(text, 2, n - 1))]]
        ELSE IF text = <<Tok("["), Tok("]")>>
        THEN [raises |-> FALSE, value |-> [kind |-> "list", items |-> <<>>]]
        ELSE [raises |-> TRUE, value |-> EmptyDict]

Absent == [exists |-> FALSE, text |-> <<>>]

load_existing_data(f) ==
    IF ~f.exists THEN EmptyDict
    ELSE LET r == json_load(f.text)
         IN  IF r.raises THEN EmptyDict ELSE r.value

\* Mutant of InsertDesc: an item goes before the items of equal count.
InsertDescUnstable(s, x) ==
    LET n == Cardinality({i \in 1..Len(s) : s[i][2] > x[2]})
    IN  SubSeq(s, 1, n) \o <<x>> \o SubSeq(s, n + 1, Len(s))

\* sorted(data.items(), key=lambda x: x[1], reverse=True): stable.
InsertDesc(s, x) ==
    LET n == Cardinality({i \in 1..Len(s) : s[i][2] >= x[2]})
    IN  SubSeq(s, 1, n) \o <<x>> \o SubSeq(s, n + 1, Len(s))

RECURSIVE sorted_data(_)
sorted_data(data) ==
    IF data = <<>> THEN <<>>
    ELSE InsertDesc(sorted_data(SubSeq(data, 1, Len(data) - 1)), data[Len(data)])

\* How the write of dados.json goes: it succeeds, open() raises, or the
\* write raises after `cut` tokens reached the file.
SaveOutcomes(data) ==
    {[kind |-> "ok", cut |-> 0], [kind |-> "open_raises", cut |-> 0]}
    \cup {[kind |-> "write_raises", cut |-> c] : c \in 0..(Len(data) + 1)}

save_data(data, io, f) ==
    LET text == json_dump(sorted_data(data))
    IN  CASE io.kind = "ok" ->
               [ok |-> TRUE, file |-> [exists |-> TRUE, text |-> text]]
          [] io.kind = "open_raises" ->
               [ok |-> FALSE, file |-> f]
          [] OTHER ->
               [ok |-> FALSE,
                file |-> [exists |-> TRUE, text |-> SubSeq(text, 1, io.cut)]]

(***************************************************************************)
(* merge_data.                                                             *)
(***************************************************************************)
RECURSIVE MergeLoop(_, _)
MergeLoop(merged_data, items) ==
    IF items = <<>> THEN merged_data
    ELSE LET paroquia == items[1][1]
             count == items[1][2]
         IN  MergeLoop(
                 IF paroquia \in Keys(merged_data)
                 THEN Put(merged_data, paroquia, Max(Get(merged_data, paroquia), count))
                 ELSE Put(merged_data, paroquia, count),
                 Tail(items))

\* Mutants of merge_data: the new count replaces the old one; the counts add up.
RECURSIVE MergeOverwrite(_, _)
MergeOverwrite(existing_items, new_items) ==
    IF new_items = <<>> THEN existing_items
    ELSE MergeOverwrite(Put(existing_items, new_items[1][1], new_items[1][2]),
                        Tail(new_items))

RECURSIVE MergeSum(_, _)
MergeSum(existing_items, new_items) ==
    IF new_items = <<>> THEN existing_items
    ELSE LET k == new_items[1][1]
         IN  MergeSum(Put(existing_items, k,
                          IF k \in Keys(existing_items)
                          THEN Get(existing_items, k) + new_items[1][2]
                          ELSE new_items[1][2]),
                      Tail(new_items))

merge_data(existing_items, new_items) == MergeLoop(existing_items, new_items)

\* merge_data on a value json.load gave that is a list: list.copy() works,
\* the first subscript with a str raises TypeError.
merge_raises(existing, new_items) == existing.kind = "list" /\ new_items # <<>>

(***************************************************************************)
(* State.                                                                  *)
(***************************************************************************)
VARIABLES
    file,           \* dados.json: [exists, text]
    file_at_start,  \* dados.json when the last run of main began
    sheet_id,       \* main's sheet_id
    df,             \* main's df
    new_data,       \* main's new_data
    existing_data,  \* main's existing_data: [kind, items]
    final_data,     \* main's final_data
    save_result,    \* what save_data returned: "not_called", "true", "false"
    exit_code,      \* the exit status of the last run
    uncaught,       \* the exception that ended the last run, "" when none
    pc              \* where main is: "idle", "fetch", "process", "load", "merge",
                    \* "save", "exited"; "edited" after a hand edit

vars == <<file, file_at_start, sheet_id, df, new_data, existing_data, final_data,
          save_result, exit_code, uncaught, pc>>

DefaultSheetId == "1Q7uu8xyc7qde84epVGSO8TJViuDO4mvUnie-dwul9q0"

\* The SHEET_ID variable of the environment: unset, or set to the empty string.
Environments == {[set |-> FALSE, value |-> ""], [set |-> TRUE, value |-> ""]}

environ_get(env, default) == IF env.set THEN env.value ELSE default

InitialFiles == {Absent, [exists |-> TRUE, text |-> json_dump(<< <<StMary, 1>> >>)]}

\* No run of main is in progress or kept: its locals hold their first values.
NoRun ==
    /\ file_at_start = file
    /\ sheet_id = ""
    /\ df = None
    /\ new_data = <<>>
    /\ existing_data = EmptyDict
    /\ final_data = <<>>
    /\ save_result = "not_called"
    /\ exit_code = 0
    /\ uncaught = ""

Init ==
    /\ file \in InitialFiles
    /\ NoRun
    /\ pc = "idle"

\* Line 161-165: a run begins; an empty SHEET_ID ends it with exit(1).
main_start ==
    /\ pc \in {"idle", "exited", "edited"}
    /\ \E env \in Environments :
         LET sid == environ_get(env, DefaultSheetId)
         IN  /\ sheet_id' = sid
             /\ pc' = IF sid = "" THEN "exited" ELSE "fetch"
             /\ exit_code' = IF sid = "" THEN 1 ELSE 0
    /\ file_at_start' = file
    /\ df' = None
    /\ new_data' = <<>>
    /\ existing_data' = EmptyDict
    /\ final_data' = <<>>
    /\ save_result' = "not_called"
    /\ uncaught' = ""
    /\ UNCHANGED file

\* Line 168.
main_fetch ==
    /\ pc = "fetch"
    /\ \E response \in Responses : df' = get_sheet_data(sheet_id, response)
    /\ pc' = "process"
    /\ UNCHANGED <<file, file_at_start, sheet_id, new_data, existing_data, final_data,
                   save_result, exit_code, uncaught>>

\* Mutant of main_process: the run goes on with no new data.
main_process_goes_on ==
    /\ pc = "process"
    /\ new_data' = process_paroquia_data(df)
    /\ pc' = "load"
    /\ exit_code' = 0
    /\ UNCHANGED <<file, file_at_start, sheet_id, df, existing_data, final_data,
                   save_result, uncaught>>

\* Lines 169-173: no new data ends the run with exit(0).
main_process ==
    /\ pc = "process"
    /\ new_data' = process_paroquia_data(df)
    /\ pc' = IF new_data' = <<>> THEN "exited" ELSE "load"
    /\ exit_code' = 0
    /\ UNCHANGED <<file, file_at_start, sheet_id, df, existing_data, final_data,
                   save_result, uncaught>>

\* Line 176.
main_load ==
    /\ pc = "load"
    /\ existing_data' = load_existing_data(file)
    /\ pc' = "merge"
    /\ UNCHANGED <<file, file_at_start, sheet_id, df, new_data, final_data,
                   save_result, exit_code, uncaught>>

\* Line 179: an exception of merge_data is caught nowhere and ends the
\* interpreter with status 1.
main_merge ==
    /\ pc = "merge"
    /\ IF merge_raises(existing_data, new_data)
       THEN /\ uncaught' = "TypeError"
            /\ exit_code' = 1
            /\ pc' = "exited"
            /\ UNCHANGED final_data
       ELSE /\ final_data' = merge_data(existing_data.items, new_data)
            /\ pc' = "save"
            /\ UNCHANGED <<uncaught, exit_code>>
    /\ UNCHANGED <<file, file_at_start, sheet_id, df, new_data, existing_data,
                   save_result>>

\* Lines 182-194.
main_save ==
    /\ pc = "save"
    /\ \E io \in SaveOutcomes(final_data) :
         LET s == save_data(final_data, io, file)
         IN  /\ file' = s.file
             /\ save_result' = IF s.ok THEN "true" ELSE "false"
             /\ exit_code' = IF s.ok THEN 0 ELSE 1
    /\ pc' = "exited"
    /\ UNCHANGED <<file_at_start, sheet_id, df, new_data, existing_data, final_data,
                   uncaught>>

\* Between runs nothing of the last run is left but dados.json.
ForgetRun ==
    /\ file_at_start' = file'
    /\ sheet_id' = ""
    /\ df' = None
    /\ new_data' = <<>>
    /\ existing_data' = EmptyDict
    /\ final_data' = <<>>
    /\ save_result' = "not_called"
    /\ exit_code' = 0
    /\ uncaught' = ""

\* A hand edit of dados.json that raises one count.
ManualRaise ==
    /\ pc \in {"idle", "exited", "edited"}
    /\ file.exists
    /\ ~json_load(file.text).raises
    /\ json_load(file.text).value.kind = "dict"
    /\ LET items == json_load(file.text).value.items
       IN  \E i \in 1..Len(items) :
             /\ items[i][2] < MaxManual
             /\ file' = [exists |-> TRUE,
                         text |-> json_dump([items EXCEPT ![i] = <<items[i][1], items[i][2] + 1>>])]
    /\ pc' = "edited"
    /\ ForgetRun

\* A hand edit that leaves well-formed JSON that is no object.
ManualArray ==
    /\ pc \in {"idle", "exited", "edited"}
    /\ file' = [exists |-> TRUE, text |-> <<Tok("["), Tok("]")>>]
    /\ pc' = "edited"
    /\ ForgetRun

Next ==
    \/ main_start
    \/ main_fetch
    \/ main_process
    \/ main_load
    \/ main_merge
    \/ main_save
    \/ ManualRaise
    \/ ManualArray

Spec == Init /\ [][Next]_vars

(***************************************************************************)
(* merge_data and the store on their own: the arguments are drawn from     *)
(* the dicts over MergeKeys with counts 0..MaxCount; merge_data is         *)
(* applied, and applied again to its result and the same new_data;         *)
(* save_data is applied to new_data and load_existing_data reads it back.  *)
(***************************************************************************)
MergeKeys == {StMary, ParoquiaA, paroquiaB}

DistinctKeys(d) == \A i, j \in 1..Len(d) : d[i][1] = d[j][1] => i = j

Dicts ==
    {d \in SeqsUpTo(MergeKeys \X (0..MaxCount), Cardinality(MergeKeys)) : DistinctKeys(d)}

InitMerge ==
    /\ file = Absent
    /\ file_at_start = Absent
    /\ sheet_id = ""
    /\ df = None
    /\ existing_data \in {[kind |-> "dict", items |-> d] : d \in Dicts}
    /\ new_data \in Dicts
    /\ final_data = <<>>
    /\ save_result = "not_called"
    /\ exit_code = 0
    /\ uncaught = ""
    /\ pc = "args"

merge_once ==
    /\ pc = "args"
    /\ final_data' = merge_data(existing_data.items, new_data)
    /\ pc' = "merged"
    /\ UNCHANGED <<file, file_at_start, sheet_id, df, new_data, existing_data,
                   save_result, exit_code, uncaught>>

merge_again ==
    /\ pc = "merged"
    /\ existing_data' = [kind |-> "dict", items |-> final_data]
    /\ final_data' = merge_data(final_data, new_data)
    /\ pc' = "merged_again"
    /\ UNCHANGED <<file, file_at_start, sheet_id, df, new_data,
                   save_result, exit_code, uncaught>>

\* save_data(new_data) followed by load_existing_data().
save_then_load ==
    /\ pc = "args"
    /\ \E io \in SaveOutcomes(new_data) :
         LET s == save_data(new_data, io, file)
         IN  /\ file' = s.file
             /\ save_result' = IF s.ok THEN "true" ELSE "false"
             /\ existing_data' = load_existing_data(s.file)
    /\ pc' = "reloaded"
    /\ UNCHANGED <<file_at_start, sheet_id, df, new_data, final_data, exit_code,
                   uncaught>>

NextUnits == merge_once \/ merge_again \/ save_then_load

SpecUnits == InitMerge /\ [][NextUnits]_vars

(***************************************************************************)
(* Properties.                                                             *)
(***************************************************************************)
\* Two dicts with the same keys and the same counts (Python's ==).
SameMap(d1, d2) ==
    /\ Keys(d1) = Keys(d2)
    /\ \A k \in Keys(d1) : Get(d1, k) = Get(d2, k)

\* C1 (SpecUnits): merge_data(existing, fresh) has exactly the keys of
\* existing and fresh; a key of both gets the larger count, a key of
\* existing alone keeps its count, a key of fresh alone gets the fresh
\* count; so merging with the empty dict on either side changes nothing.
C1_MergeUnionMax ==
    pc = "merged" =>
        LET A == existing_data.items
            B == new_data
        IN  /\ DistinctKeys(final_data)
            /\ Keys(final_data) = Keys(A) \cup Keys(B)
            /\ \A k \in Keys(final_data) :
                 Get(final_data, k) =
                     IF k \in Keys(A) /\ k \in Keys(B) THEN Max(Get(A, k), Get(B, k))
                     ELSE IF k \in Keys(A) THEN Get(A, k)
                     ELSE Get(B, k)
            /\ (B = <<>> => final_data = A)
            /\ (A = <<>> => final_data = B)

C1_Witness ==
    /\ pc = "merged"
    /\ \E k \in Keys(existing_data.items) \cap Keys(new_data) :
         Get(new_data, k) > Get(existing_data.items, k)
    /\ \E k \in Keys(existing_data.items) \cap Keys(new_data) :
         Get(new_data, k) < Get(existing_data.items, k)
    /\ Keys(existing_data.items) \ Keys(new_data) # {}

\* C7 (SpecUnits): merging the same fresh dict a second time changes
\* nothing: merge(merge(A, B), B) = merge(A, B).  In "merged_again",
\* existing_data holds merge(A, B) and final_data the second merge.
C7_MergeIdempotent ==
    pc = "merged_again" => SameMap(final_data, existing_data.items)

C7_Witness ==
    /\ pc = "merged_again"
    /\ Len(new_data) >= 2
    /\ Len(final_data) > Len(new_data)
    /\ \E k \in Keys(new_data) : Get(new_data, k) > 0 /\ Get(final_data, k) > Get(new_data, k)

\* C8 (SpecUnits): after a save_data(M) that succeeded, load_existing_data
\* returns a dict with the keys and counts of M.
C8_SaveLoadRoundTrip ==
    (pc = "reloaded" /\ save_result = "true") =>
        /\ existing_data.kind = "dict"
        /\ SameMap(existing_data.items, new_data)

C8_Witness ==
    /\ pc = "reloaded"
    /\ save_result = "true"
    /\ Len(new_data) = Cardinality(MergeKeys)
    /\ \E i, j \in 1..Len(new_data) : i < j /\ new_data[i][2] = 0 /\ new_data[j][2] > 0

\* The Tabulator as the specification words it: the values that are blank
\* after trimming and the values that contain the header phrase are
\* dropped, the others are counted.
TabulatorKeeps(p) == strip(p) # <<>> /\ ~Contains(KwParoquiaAcute, lower(p))

Tabulated ==
    /\ pc \in {"load", "merge", "save", "exited"}
    /\ ~df.isNone
    /\ ~df_empty(df)
    /\ paroquia_column(df) # 0

\* C2 (Spec): the filter-and-count step drops exactly the blank values and
\* the values that contain the header phrase, and counts the others.
C2_TabulatorDropsHeaderValues ==
    Tabulated =>
        new_data = Counter(SelectSeq(dropna(df.data[paroquia_column(df)]), TabulatorKeeps))

NoNewData == df.isNone \/ df_empty(df) \/ paroquia_column(df) = 0 \/ new_data = <<>>

\* C3 (Spec): a run whose fetch fails, whose column is not found or whose
\* counts are empty leaves dados.json as it was, calls neither
\* load_existing_data nor save_data, raises nothing and exits with 0.
C3_NoNewDataLeavesFile ==
    (pc = "exited" /\ sheet_id # "" /\ NoNewData) =>
        /\ file = file_at_start
        /\ save_result = "not_called"
        /\ final_data = <<>>
        /\ uncaught = ""
        /\ exit_code = 0

C3_Witness ==
    /\ pc = "exited"
    /\ sheet_id # ""
    /\ df.isNone
    /\ file.exists
    /\ load_existing_data(file).items # <<>>

\* The CountMap dados.json holds, as a run reads it.
Persisted(f) == load_existing_data(f).items

\* C4 (Spec): a run never removes a key from the persisted map and never
\* lowers a persisted count.
C4_PersistedMonotone ==
    pc = "exited" =>
        \A k \in Keys(Persisted(file_at_start)) :
            /\ k \in Keys(Persisted(file))
            /\ Get(Persisted(file), k) >= Get(Persisted(file_at_start), k)

\* C5 (Spec): a run ends with status 0 or 1, and with 1 exactly when
\* SHEET_ID is empty or save_data returned False.
C5_ExitCodes ==
    pc = "exited" =>
        /\ exit_code \in {0, 1}
        /\ (exit_code = 1 <=> (sheet_id = "" \/ save_result = "false"))

\* What dados.json holds as an item sequence, in file order.
FileItems(f) == json_load(f.text).value.items

\* C6 (Spec): after a save_data(M) that succeeded the keys of dados.json
\* are in non-increasing order of count, keys of equal count are in the
\* order M has them, and a run of main on the same new_data rewrites
\* dados.json as it is.
C6_SortedStable ==
    (pc = "exited" /\ save_result = "true") =>
        LET P == FileItems(file)
            M == final_data
            Pos(d, k) == CHOOSE i \in 1..Len(d) : d[i][1] = k
        IN  /\ SameMap(P, M)
            /\ Len(P) = Len(M)
            /\ \A i, j \in 1..Len(P) : i < j => P[i][2] >= P[j][2]
            /\ \A i, j \in 1..Len(P) :
                 (i < j /\ P[i][2] = P[j][2]) => Pos(M, P[i][1]) < Pos(M, P[j][1])
            /\ save_data(merge_data(load_existing_data(file).items, new_data),
                         [kind |-> "ok", cut |-> 0], file).file = file

C6_Witness ==
    /\ pc = "exited"
    /\ save_result = "true"
    /\ Len(final_data) >= 3
    /\ final_data[1][2] < final_data[2][2]
    /\ final_data[1][2] = final_data[3][2]
    /\ FileItems(file) # final_data

\* A file load_existing_data cannot use as a CountMap: absent, not JSON, or
\* JSON that is no object.
Unusable(f) ==
    \/ ~f.exists
    \/ json_load(f.text).raises
    \/ json_load(f.text).value.kind # "dict"

\* C9 (Spec): with dados.json absent or unusable, load_existing_data
\* returns the empty dict and the run goes on: nothing is raised, and a
\* save that succeeds leaves new_data as the whole content of dados.json.
C9_LoadErrorNotFatal ==
    (pc \in {"merge", "save", "exited"} /\ new_data # <<>> /\ Unusable(file_at_start)) =>
        /\ existing_data = EmptyDict
        /\ uncaught = ""
        /\ (save_result = "true" => SameMap(FileItems(file), new_data))

\* C10 (Spec): dados.json holds its whole content of before the run or the
\* whole sorted merged map, whatever save_data met.
C10_WholeFileReplaced ==
    pc = "exited" =>
        \/ file = file_at_start
        \/ file = [exists |-> TRUE, text |-> json_dump(sorted_data(final_data))]

====
